---- MODULE Spec2Model ----
(***************************************************************************)
(* Model of the enterprise dashboard's client-side data engine:            *)
(*   - the auth slice (features/auth/authSlice.ts) and local storage,      *)
(*   - the authenticated transport baseQueryWithReauth (services/api.ts),  *)
(*   - the users collection cache (features/users/usersSlice.ts) over the  *)
(*     mock backend (services/mockApi.ts).                                 *)
(* The products slice is the users slice with the names changed; the       *)
(* users slice stands for both.                                            *)
(***************************************************************************)
EXTENDS Integers, Sequences, FiniteSets, TLC

VARIABLES
    auth,           \* AuthState: user, token, refreshToken, isAuthenticated, isLoading, error
    storage,        \* localStorage: config.tokenKey and config.refreshTokenKey
    reqs,           \* one baseQueryWithReauth call per request id
    pendingLogin,   \* loginAsync calls waiting for mockApi.login (delay 800)
    pendingRefresh, \* refreshTokenAsync calls waiting for mockApi.refreshToken (delay 300)
    nextTok,        \* the next token value a server hands out (Date.now())
    us,             \* UsersState: the users slice of the store
    mockUsers,      \* the mock backend's collection
    net,            \* mockApi calls of the users thunks in flight (delay 500), oldest first
    nextId,         \* the next id mockApi.createUser hands out (Date.now())
    settled,        \* the action the last settled users thunk resolved to
    issued,         \* users thunks dispatched so far
    categoryFilter, \* the products page's category filter (useState(''))
    ui,             \* UIState: the notifications of the ui slice
    clock           \* the value Date.now() returns to the next addNotification

authVars == <<auth, storage, reqs, pendingLogin, pendingRefresh, nextTok>>
cacheVars == <<us, mockUsers, net, nextId, settled, issued>>
pageVars == <<categoryFilter>>
uiVars == <<ui, clock>>
vars == <<auth, storage, reqs, pendingLogin, pendingRefresh, nextTok,
          us, mockUsers, net, nextId, settled, issued, categoryFilter, ui, clock>>

(***************************************************************************)
(* Bounds                                                                  *)
(***************************************************************************)
NumRequests == 2        \* baseQueryWithReauth calls that may overlap
MaxTok == 3             \* token values handed out by the servers
MaxAuthInFlight == 1    \* loginAsync and refreshTokenAsync calls in flight
NumAuthRequests == 1    \* transport calls made next to the auth thunks

Requests == 1 .. NumRequests
AuthRequests == 1 .. NumAuthRequests
NumUsers == 3           \* rows of the mock backend at start-up
SmallPageSize == 2      \* a page size that splits NumUsers rows into pages
MaxPage == 2            \* pages a fetch may ask for
MaxInFlight == 2        \* users thunks that may be in flight together
MaxIssued == 3          \* users thunks dispatched in one behaviour
MaxQueries == 5         \* fetches a table page dispatches in one behaviour
MaxClock == 52          \* the last value of Date.now() an addNotification reads

(***************************************************************************)
(* Values                                                                  *)
(***************************************************************************)
NoToken == 0            \* string | null: null
BadToken == 0 - 1       \* a string that does not start with 'mock-refresh-token'
NoError == "null"
NoUser == [id |-> "null", role |-> "null"]

demoUsers ==
    [e \in {"admin@enterprise.com", "manager@enterprise.com", "user@enterprise.com"} |->
        CASE e = "admin@enterprise.com" ->
                [password |-> "admin123", user |-> [id |-> "admin-1", role |-> "admin"]]
          [] e = "manager@enterprise.com" ->
                [password |-> "manager123", user |-> [id |-> "manager-1", role |-> "manager"]]
          [] OTHER ->
                [password |-> "user123", user |-> [id |-> "user-1", role |-> "user"]]]

\* credentials tried at the login form: right, wrong password, unknown e-mail
LoginInputs ==
    {[email |-> "admin@enterprise.com", password |-> "admin123"],
     [email |-> "admin@enterprise.com", password |-> "user123"],
     [email |-> "nobody@enterprise.com", password |-> "admin123"]}
\* Partial<User> payloads of the updateUser reducer
UserPatches == {[role |-> "manager"]}

\* users: a row, null, the names generateUsers draws from, and the inputs
\* of the users thunks
DefaultPageSize == 25
\* uiSlice: "Keep only last 50 notifications"
NotificationLimit == 50
NoEntity == [id |-> 0, name |-> "", isActive |-> FALSE]
NoData == [none |-> TRUE]
NotSettled == [kind |-> "none", status |-> "none"]
UserNames == <<"ann", "bob">>
UserIds == 1 .. NumUsers
Pages == 1 .. MaxPage
PageSizes == {SmallPageSize, DefaultPageSize}
Searches == {"", "ann"}
NewUsers == {[name |-> "ann"]}
UserEdits == {[isActive |-> FALSE]}
Categories == <<"Books", "Toys">>
CategoryFilters == {"", Categories[1], Categories[2]}

\* what fetchBaseQuery resolves to: data, or error.status (an HTTP status,
\* or FETCH_ERROR when the network fails; no timeout is configured)
Outcomes == {"ok", "401", "500", "FETCH_ERROR"}

initialState(stored) ==
    [user |-> NoUser,
     token |-> stored.token,
     refreshToken |-> stored.refreshToken,
     isAuthenticated |-> stored.token # NoToken,
     isLoading |-> FALSE,
     error |-> NoError]

NoStorage == [token |-> NoToken, refreshToken |-> NoToken]

\* a baseQueryWithReauth call that has not been made yet
idleRequest ==
    [pc |-> "idle",         \* idle, sent1, refreshing, sent2, done
     result |-> "none",     \* the code's `result`: what the caller gets
     hdr |-> NoToken,       \* the token in the header of the query on the wire
     sends |-> 0,           \* times the original query went out
     refreshes |-> 0,       \* POST /auth/refresh calls made for it
     logouts |-> 0,         \* logout() actions it dispatched
     during |-> {}]         \* the calls awaiting their refresh when it issued its own

(***************************************************************************)
(* authSlice reducers (features/auth/authSlice.ts)                         *)
(***************************************************************************)
setCredentials(a, payload) ==
    [a EXCEPT !.user = payload.user,
              !.token = payload.token,
              !.refreshToken = payload.refreshToken,
              !.isAuthenticated = TRUE,
              !.error = NoError]

\* a faulty logout: the refresh token survives
logout_KeepsRefreshToken(a) ==
    [a EXCEPT !.user = NoUser,
              !.token = NoToken,
              !.isAuthenticated = FALSE,
              !.error = NoError]

logout(a) ==
    [a EXCEPT !.user = NoUser,
              !.token = NoToken,
              !.refreshToken = NoToken,
              !.isAuthenticated = FALSE,
              !.error = NoError]

clearError(a) == [a EXCEPT !.error = NoError]

\* state.user = { ...state.user, ...action.payload } when state.user is set
updateUser(a, patch) ==
    IF a.user # NoUser
    THEN [a EXCEPT !.user = [f \in DOMAIN a.user |->
                                IF f \in DOMAIN patch THEN patch[f] ELSE a.user[f]]]
    ELSE a

loginPending(a) == [a EXCEPT !.isLoading = TRUE, !.error = NoError]

loginFulfilled(a, payload) ==
    [a EXCEPT !.isLoading = FALSE,
              !.user = payload.user,
              !.token = payload.token,
              !.refreshToken = payload.refreshToken,
              !.isAuthenticated = TRUE]

\* a faulty loginRejected: a failed login also drops the session
loginRejected_DropsSession(a, message) ==
    [a EXCEPT !.isLoading = FALSE, !.error = message,
              !.token = NoToken, !.refreshToken = NoToken, !.isAuthenticated = FALSE]

\* a faulty loginRejected: a failed login also forgets the user
loginRejected_ClearsUser(a, message) ==
    [a EXCEPT !.isLoading = FALSE, !.error = message, !.user = NoUser]

loginRejected(a, message) == [a EXCEPT !.isLoading = FALSE, !.error = message]

logoutFulfilled(a) ==
    [a EXCEPT !.user = NoUser,
              !.token = NoToken,
              !.refreshToken = NoToken,
              !.isAuthenticated = FALSE]

refreshFulfilled(a, payload) ==
    [a EXCEPT !.token = payload.token,
              !.refreshToken = payload.refreshToken,
              !.user = payload.user,
              !.isAuthenticated = TRUE]

\* a faulty refreshTokenAsync.rejected: the user is kept
refreshRejected_KeepsUser(a) ==
    [a EXCEPT !.token = NoToken,
              !.refreshToken = NoToken,
              !.isAuthenticated = FALSE]

refreshRejected(a) ==
    [a EXCEPT !.user = NoUser,
              !.token = NoToken,
              !.refreshToken = NoToken,
              !.isAuthenticated = FALSE]

(***************************************************************************)
(* mockApi auth calls (services/mockApi.ts)                                *)
(***************************************************************************)
\* mockApi.login: throws unless the e-mail is a demo user's and the password matches
loginSucceeds(email, password) ==
    email \in DOMAIN demoUsers /\ demoUsers[email].password = password

AuthResponse(user, tok) == [user |-> user, token |-> tok, refreshToken |-> tok]

\* refreshToken.startsWith('mock-refresh-token'): tokens the servers hand out
\* are positive, BadToken stands for any other string
refreshSucceeds(refreshToken) == refreshToken > 0

(***************************************************************************)
(* Authenticated transport (services/api.ts)                               *)
(***************************************************************************)
\* prepareHeaders: the Authorization header carries the store's token, if any
prepareHeaders(a) == a.token

\* a faulty isAuthFailure: any error counts
isAuthFailure_AnyError(result) == result # "ok"

\* result.error && result.error.status === 401
isAuthFailure(result) == result = "401"

\* a faulty refreshThenRetry: the retry's headers are prepared first
refreshThenRetry_StaleHeader(a, authData) ==
    [auth |-> setCredentials(a, authData), hdr |-> prepareHeaders(a)]

\* after a successful refresh: dispatch(setCredentials(authData)), then the
\* original query is sent again through baseQuery
refreshThenRetry(a, authData) ==
    LET stored == setCredentials(a, authData)
    IN  [auth |-> stored, hdr |-> prepareHeaders(stored)]

\* a faulty afterRetry: a 401 on the retry starts the refresh again
afterRetry_RefreshAgain(result) == IF isAuthFailure(result) THEN "refreshing" ELSE "done"

\* the result of the retried query is returned as it is
afterRetry(result) == "done"

InFlight(r) == reqs[r].pc \in {"sent1", "refreshing", "sent2"}

\* the calls whose POST /auth/refresh is outstanding
Refreshing == {q \in Requests : reqs[q].pc = "refreshing"}

\* let result = await baseQuery(args, api, extraOptions): the request goes out
\* (request ids are handed out in the order the calls are made)
Send(r) ==
    /\ reqs[r].pc = "idle"
    /\ \A q \in Requests : q < r => reqs[q].pc # "idle"
    /\ reqs' = [reqs EXCEPT ![r] =
                  [@ EXCEPT !.pc = "sent1",
                            !.hdr = prepareHeaders(auth),
                            !.sends = @ + 1]]
    /\ UNCHANGED <<auth, storage, pendingLogin, pendingRefresh, nextTok, cacheVars, pageVars, uiVars>>

\* the first answer arrives; the code runs on to its next await or its return
Receive(r) ==
    /\ reqs[r].pc = "sent1"
    /\ \E result \in Outcomes :
         IF isAuthFailure(result)
         THEN IF auth.refreshToken # NoToken
              THEN /\ reqs' = [reqs EXCEPT ![r] =
                                 [@ EXCEPT !.pc = "refreshing",
                                           !.result = result,
                                           !.refreshes = @ + 1,
                                           !.during = Refreshing]]
                   /\ UNCHANGED <<auth, storage>>
              ELSE /\ reqs' = [reqs EXCEPT ![r] =
                                 [@ EXCEPT !.pc = "done",
                                           !.result = result,
                                           !.hdr = NoToken,
                                           !.logouts = @ + 1]]
                   /\ auth' = logout(auth)
                   /\ storage' = NoStorage
         ELSE /\ reqs' = [reqs EXCEPT ![r] =
                            [@ EXCEPT !.pc = "done", !.result = result, !.hdr = NoToken]]
              /\ UNCHANGED <<auth, storage>>
    /\ UNCHANGED <<pendingLogin, pendingRefresh, nextTok, cacheVars, pageVars, uiVars>>

\* the answer of POST /auth/refresh arrives with data: new credentials, retry
RefreshOk(r) ==
    /\ reqs[r].pc = "refreshing"
    /\ nextTok <= MaxTok
    /\ LET authData == AuthResponse(demoUsers["admin@enterprise.com"].user, nextTok)
           next == refreshThenRetry(auth, authData)
       IN  /\ auth' = next.auth
           /\ reqs' = [reqs EXCEPT ![r] =
                         [@ EXCEPT !.pc = "sent2",
                                   !.hdr = next.hdr,
                                   !.sends = @ + 1]]
    /\ nextTok' = nextTok + 1
    /\ UNCHANGED <<storage, pendingLogin, pendingRefresh, cacheVars, pageVars, uiVars>>

\* the answer of POST /auth/refresh arrives without data: dispatch(logout())
RefreshFailed(r) ==
    /\ reqs[r].pc = "refreshing"
    /\ reqs' = [reqs EXCEPT ![r] =
                  [@ EXCEPT !.pc = "done", !.hdr = NoToken, !.logouts = @ + 1]]
    /\ auth' = logout(auth)
    /\ storage' = NoStorage
    /\ UNCHANGED <<pendingLogin, pendingRefresh, nextTok, cacheVars, pageVars, uiVars>>

\* the answer to the retried query arrives
ReceiveRetry(r) ==
    /\ reqs[r].pc = "sent2"
    /\ \E result \in Outcomes :
         LET pc2 == afterRetry(result)
         IN  reqs' = [reqs EXCEPT ![r] =
                        [@ EXCEPT !.pc = pc2,
                                  !.result = result,
                                  !.hdr = IF pc2 = "done" THEN NoToken ELSE @,
                                  !.refreshes = IF pc2 = "refreshing" THEN @ + 1 ELSE @,
                                  !.during = IF pc2 = "refreshing" THEN Refreshing ELSE @]]
    /\ UNCHANGED <<auth, storage, pendingLogin, pendingRefresh, nextTok, cacheVars, pageVars, uiVars>>

(***************************************************************************)
(* Auth thunks (features/auth/authSlice.ts)                                *)
(***************************************************************************)
\* dispatch(loginAsync(credentials)): pending is reduced, mockApi.login starts
LoginStart(credentials) ==
    /\ Len(pendingLogin) + Len(pendingRefresh) < MaxAuthInFlight
    /\ pendingLogin' = Append(pendingLogin, credentials)
    /\ auth' = loginPending(auth)
    /\ UNCHANGED <<storage, reqs, pendingRefresh, nextTok, cacheVars, pageVars, uiVars>>

\* mockApi.login resolves: the tokens are stored, then fulfilled is reduced
LoginFulfilled ==
    /\ pendingLogin # <<>>
    /\ loginSucceeds(Head(pendingLogin).email, Head(pendingLogin).password)
    /\ nextTok <= MaxTok
    /\ LET response == AuthResponse(demoUsers[Head(pendingLogin).email].user, nextTok)
       IN  /\ storage' = [token |-> response.token, refreshToken |-> response.refreshToken]
           /\ auth' = loginFulfilled(auth, response)
    /\ pendingLogin' = Tail(pendingLogin)
    /\ nextTok' = nextTok + 1
    /\ UNCHANGED <<reqs, pendingRefresh, cacheVars, pageVars, uiVars>>

\* mockApi.login throws: rejectWithValue(message)
LoginRejected ==
    /\ pendingLogin # <<>>
    /\ ~loginSucceeds(Head(pendingLogin).email, Head(pendingLogin).password)
    /\ auth' = loginRejected(auth, "Invalid email or password")
    /\ pendingLogin' = Tail(pendingLogin)
    /\ UNCHANGED <<storage, reqs, pendingRefresh, nextTok, cacheVars, pageVars, uiVars>>

\* dispatch(logoutAsync()): the stored tokens are removed, fulfilled is reduced
LogoutAsync ==
    /\ storage' = NoStorage
    /\ auth' = logoutFulfilled(auth)
    /\ UNCHANGED <<reqs, pendingLogin, pendingRefresh, nextTok, cacheVars, pageVars, uiVars>>

\* dispatch(refreshTokenAsync(refreshToken)): mockApi.refreshToken starts
RefreshTokenStart(refreshToken) ==
    /\ Len(pendingLogin) + Len(pendingRefresh) < MaxAuthInFlight
    /\ pendingRefresh' = Append(pendingRefresh, refreshToken)
    /\ UNCHANGED <<auth, storage, reqs, pendingLogin, nextTok, cacheVars, pageVars, uiVars>>

\* mockApi.refreshToken resolves: tokens stored, fulfilled reduced
RefreshTokenFulfilled ==
    /\ pendingRefresh # <<>>
    /\ refreshSucceeds(Head(pendingRefresh))
    /\ nextTok <= MaxTok
    /\ LET response == AuthResponse(demoUsers["admin@enterprise.com"].user, nextTok)
       IN  /\ storage' = [token |-> response.token, refreshToken |-> response.refreshToken]
           /\ auth' = refreshFulfilled(auth, response)
    /\ pendingRefresh' = Tail(pendingRefresh)
    /\ nextTok' = nextTok + 1
    /\ UNCHANGED <<reqs, pendingLogin, cacheVars, pageVars, uiVars>>

\* mockApi.refreshToken throws: tokens removed, rejected reduced
RefreshTokenRejected ==
    /\ pendingRefresh # <<>>
    /\ ~refreshSucceeds(Head(pendingRefresh))
    /\ storage' = NoStorage
    /\ auth' = refreshRejected(auth)
    /\ pendingRefresh' = Tail(pendingRefresh)
    /\ UNCHANGED <<reqs, pendingLogin, nextTok, cacheVars, pageVars, uiVars>>

ClearError ==
    /\ auth' = clearError(auth)
    /\ UNCHANGED <<storage, reqs, pendingLogin, pendingRefresh, nextTok, cacheVars, pageVars, uiVars>>

UpdateUser(patch) ==
    /\ auth' = updateUser(auth, patch)
    /\ UNCHANGED <<storage, reqs, pendingLogin, pendingRefresh, nextTok, cacheVars, pageVars, uiVars>>

(***************************************************************************)
(* The mock backend's users (services/mockApi.ts)                          *)
(***************************************************************************)
Min(a, b) == IF a < b THEN a ELSE b

\* Math.ceil(a / b) for a >= 0, b > 0
Ceil(a, b) == (a + b - 1) \div b

\* Array.prototype.slice(start, end) for 0 <= start <= end
slice(s, start, end) == SubSeq(s, start + 1, Min(end, Len(s)))

\* { ...row, ...data }
Merge(row, data) ==
    [f \in DOMAIN row |-> IF f \in DOMAIN data THEN data[f] ELSE row[f]]

\* firstName / lastName / email .toLowerCase().includes(searchLower); the
\* names and the search texts of the model are such that one includes
\* another only if they are equal
includes(user, searchLower) == user.name = searchLower

\* findIndex: the first index whose row has the id, 0 for -1
findIndex(rows, id) ==
    IF \E i \in 1 .. Len(rows) : rows[i].id = id
    THEN CHOOSE i \in 1 .. Len(rows) :
             rows[i].id = id /\ \A j \in 1 .. (i - 1) : rows[j].id # id
    ELSE 0

\* rows.filter((u) => u.id !== id)
withoutId(rows, id) == SelectSeq(rows, LAMBDA u : u.id # id)

\* generateUsers(count): ids user-1 .. user-count; the names and isActive
\* are drawn with Math.random(): the draw of the model alternates the names
\* and makes the last row inactive
generateUsers(count) ==
    [i \in 1 .. count |-> [id |-> i, name |-> UserNames[((i - 1) % Len(UserNames)) + 1],
                           isActive |-> i # count]]

\* mockApi.getUsers
getUsers(db, page, pageSize, search) ==
    LET filtered == IF search # ""
                    THEN SelectSeq(db, LAMBDA u : includes(u, search))
                    ELSE db
        start == (page - 1) * pageSize
        end == start + pageSize
    IN  [data |-> slice(filtered, start, end),
         pagination |-> [page |-> page,
                         pageSize |-> pageSize,
                         total |-> Len(filtered),
                         totalPages |-> Ceil(Len(filtered), pageSize)]]

\* mockApi.createUser: the new row, put at the head of the collection
newUser(id, userData) == [id |-> id, name |-> userData.name, isActive |-> TRUE]

\* mockApi.updateUser: the collection with the row merged
updatedUsers(db, id, userData) ==
    [db EXCEPT ![findIndex(db, id)] = Merge(@, userData)]

(***************************************************************************)
(* usersSlice reducers (features/users/usersSlice.ts)                      *)
(***************************************************************************)
initialUsersState ==
    [users |-> <<>>,
     selectedUser |-> NoEntity,
     tableState |-> [page |-> 1, pageSize |-> DefaultPageSize, sort |-> "null",
                     filters |-> <<>>, search |-> ""],
     pagination |-> [page |-> 1, pageSize |-> DefaultPageSize, total |-> 0, totalPages |-> 0],
     isLoading |-> FALSE,
     isCreating |-> FALSE,
     isUpdating |-> FALSE,
     isDeleting |-> FALSE,
     error |-> NoError]

\* state.tableState = { ...state.tableState, ...action.payload }
setTableState(st, payload) == [st EXCEPT !.tableState = Merge(@, payload)]

setSelectedUser(st, payload) == [st EXCEPT !.selectedUser = payload]

\* state.users.find(...): the first row with the id, if there is one
optimisticUpdateUserStatus(st, payload) ==
    LET index == findIndex(st.users, payload.id)
    IN  [st EXCEPT !.users = IF index # 0
                             THEN [@ EXCEPT ![index].isActive = payload.isActive]
                             ELSE @]

fetchUsersPending(st) == [st EXCEPT !.isLoading = TRUE, !.error = NoError]

\* a faulty fetchUsersFulfilled: the response is added to the stored rows
fetchUsersFulfilled_Appends(st, payload) ==
    [st EXCEPT !.isLoading = FALSE,
               !.users = @ \o payload.data,
               !.pagination = payload.pagination]

fetchUsersFulfilled(st, payload) ==
    [st EXCEPT !.isLoading = FALSE,
               !.users = payload.data,
               !.pagination = payload.pagination]

fetchUsersRejected(st, message) == [st EXCEPT !.isLoading = FALSE, !.error = message]

createUserPending(st) == [st EXCEPT !.isCreating = TRUE, !.error = NoError]

\* a faulty createUserFulfilled: total does not count the new row
createUserFulfilled_KeepsTotal(st, payload) ==
    [st EXCEPT !.isCreating = FALSE,
               !.users = <<payload>> \o @]

createUserFulfilled(st, payload) ==
    [st EXCEPT !.isCreating = FALSE,
               !.users = <<payload>> \o @,
               !.pagination.total = @ + 1]

\* a faulty createUserRejected: the failed create still counts in total
createUserRejected_RaisesTotal(st, payload) ==
    [st EXCEPT !.isCreating = FALSE, !.error = payload, !.pagination.total = @ + 1]

createUserRejected(st, payload) == [st EXCEPT !.isCreating = FALSE, !.error = payload]

updateUserPending(st) == [st EXCEPT !.isUpdating = TRUE, !.error = NoError]

updateUserFulfilled(st, payload) ==
    LET index == findIndex(st.users, payload.id)
    IN  [st EXCEPT !.isUpdating = FALSE,
                   !.users = IF index # 0 THEN [@ EXCEPT ![index] = payload] ELSE @,
                   !.selectedUser = IF @.id = payload.id THEN payload ELSE @]

updateUserRejected(st, payload) == [st EXCEPT !.isUpdating = FALSE, !.error = payload]

deleteUserPending(st) == [st EXCEPT !.isDeleting = TRUE, !.error = NoError]

\* a faulty deleteUserFulfilled: the selection survives the delete
deleteUserFulfilled_KeepsSelection(st, id) ==
    [st EXCEPT !.isDeleting = FALSE,
               !.users = withoutId(@, id),
               !.pagination.total = @ - 1]

deleteUserFulfilled(st, id) ==
    [st EXCEPT !.isDeleting = FALSE,
               !.users = withoutId(@, id),
               !.pagination.total = @ - 1,
               !.selectedUser = IF @.id = id THEN NoEntity ELSE @]

deleteUserRejected(st, payload) == [st EXCEPT !.isDeleting = FALSE, !.error = payload]

(***************************************************************************)
(* users thunks: dispatch, and the settling of the oldest call in flight.  *)
(* Every mockApi call of these thunks waits delay(500), so the calls       *)
(* settle in the order they were made.  mockApi itself throws only in      *)
(* updateUser ('User not found'); the rejected cases of the other thunks   *)
(* stand for a backend call that fails.                                    *)
(***************************************************************************)
Call(kind, page, pageSize, search, id, data) ==
    [kind |-> kind, page |-> page, pageSize |-> pageSize, search |-> search,
     id |-> id, data |-> data]

MayDispatch == Len(net) < MaxInFlight /\ issued < MaxIssued

Settles(kind) == net # <<>> /\ Head(net).kind = kind

Settle(kind, status) ==
    /\ net' = Tail(net)
    /\ settled' = [kind |-> kind, status |-> status]

DispatchFetchUsers(page, pageSize, search) ==
    /\ MayDispatch
    /\ us' = fetchUsersPending(us)
    /\ net' = Append(net, Call("fetchUsers", page, pageSize, search, 0, NoData))
    /\ issued' = issued + 1
    /\ UNCHANGED <<mockUsers, nextId, settled, authVars, pageVars, uiVars>>

FetchUsersFulfilled ==
    /\ Settles("fetchUsers")
    /\ us' = fetchUsersFulfilled(us, getUsers(mockUsers, Head(net).page,
                                              Head(net).pageSize, Head(net).search))
    /\ Settle("fetchUsers", "fulfilled")
    /\ UNCHANGED <<mockUsers, nextId, issued, authVars, pageVars, uiVars>>

FetchUsersRejected ==
    /\ Settles("fetchUsers")
    /\ us' = fetchUsersRejected(us, "Failed to fetch users")
    /\ Settle("fetchUsers", "rejected")
    /\ UNCHANGED <<mockUsers, nextId, issued, authVars, pageVars, uiVars>>

DispatchCreateUser(userData) ==
    /\ MayDispatch
    /\ us' = createUserPending(us)
    /\ net' = Append(net, Call("createUser", 0, 0, "", 0, userData))
    /\ issued' = issued + 1
    /\ UNCHANGED <<mockUsers, nextId, settled, authVars, pageVars, uiVars>>

CreateUserFulfilled ==
    /\ Settles("createUser")
    /\ LET created == newUser(nextId, Head(net).data)
       IN  /\ mockUsers' = <<created>> \o mockUsers
           /\ us' = createUserFulfilled(us, created)
    /\ nextId' = nextId + 1
    /\ Settle("createUser", "fulfilled")
    /\ UNCHANGED <<issued, authVars, pageVars, uiVars>>

CreateUserRejected ==
    /\ Settles("createUser")
    /\ us' = createUserRejected(us, "Failed to create user")
    /\ Settle("createUser", "rejected")
    /\ UNCHANGED <<mockUsers, nextId, issued, authVars, pageVars, uiVars>>

DispatchUpdateUser(id, data) ==
    /\ MayDispatch
    /\ us' = updateUserPending(us)
    /\ net' = Append(net, Call("updateUser", 0, 0, "", id, data))
    /\ issued' = issued + 1
    /\ UNCHANGED <<mockUsers, nextId, settled, authVars, pageVars, uiVars>>

UpdateUserFulfilled ==
    /\ Settles("updateUser")
    /\ findIndex(mockUsers, Head(net).id) # 0
    /\ mockUsers' = updatedUsers(mockUsers, Head(net).id, Head(net).data)
    /\ us' = updateUserFulfilled(us, mockUsers'[findIndex(mockUsers, Head(net).id)])
    /\ Settle("updateUser", "fulfilled")
    /\ UNCHANGED <<nextId, issued, authVars, pageVars, uiVars>>

UpdateUserRejected ==
    /\ Settles("updateUser")
    /\ findIndex(mockUsers, Head(net).id) = 0
    /\ us' = updateUserRejected(us, "User not found")
    /\ Settle("updateUser", "rejected")
    /\ UNCHANGED <<mockUsers, nextId, issued, authVars, pageVars, uiVars>>

\* the backend call of updateUser fails for another reason than the id
UpdateUserFailed ==
    /\ Settles("updateUser")
    /\ us' = updateUserRejected(us, "Failed to update user")
    /\ Settle("updateUser", "rejected")
    /\ UNCHANGED <<mockUsers, nextId, issued, authVars, pageVars, uiVars>>

DispatchDeleteUser(id) ==
    /\ MayDispatch
    /\ us' = deleteUserPending(us)
    /\ net' = Append(net, Call("deleteUser", 0, 0, "", id, NoData))
    /\ issued' = issued + 1
    /\ UNCHANGED <<mockUsers, nextId, settled, authVars, pageVars, uiVars>>

DeleteUserFulfilled ==
    /\ Settles("deleteUser")
    /\ mockUsers' = withoutId(mockUsers, Head(net).id)
    /\ us' = deleteUserFulfilled(us, Head(net).id)
    /\ Settle("deleteUser", "fulfilled")
    /\ UNCHANGED <<nextId, issued, authVars, pageVars, uiVars>>

DeleteUserRejected ==
    /\ Settles("deleteUser")
    /\ us' = deleteUserRejected(us, "Failed to delete user")
    /\ Settle("deleteUser", "rejected")
    /\ UNCHANGED <<mockUsers, nextId, issued, authVars, pageVars, uiVars>>

(***************************************************************************)
(* users reducers the page dispatches directly                             *)
(***************************************************************************)
\* openEditForm(user) with a row of the table, openCreateForm() with null
SetSelectedUser(user) ==
    /\ us.selectedUser # user
    /\ us' = setSelectedUser(us, user)
    /\ UNCHANGED <<mockUsers, net, nextId, settled, issued, authVars, pageVars, uiVars>>

OptimisticUpdateUserStatus(id, isActive) ==
    /\ us' = optimisticUpdateUserStatus(us, [id |-> id, isActive |-> isActive])
    /\ us' # us
    /\ UNCHANGED <<mockUsers, net, nextId, settled, issued, authVars, pageVars, uiVars>>

(***************************************************************************)
(* The query of a table page (pages/ProductsPage.tsx; pages/UsersPage.tsx  *)
(* is the same page without the category filter).  The query is the        *)
(* slice's tableState and the page's categoryFilter; an effect fetches     *)
(* whenever page, pageSize, the debounced search or the category changes.  *)
(* Here the rows of the backend stand for the products, each with the      *)
(* category generateProducts drew for it.                                  *)
(***************************************************************************)
\* categories[Math.floor(Math.random() * categories.length)]: the draw of the
\* model puts the first row in one category and the others in another
categoryOf(product) == IF product.id = 1 THEN Categories[1] ELSE Categories[2]

\* mockApi.getProducts
getProducts(db, page, pageSize, search, category) ==
    LET searched == IF search # ""
                    THEN SelectSeq(db, LAMBDA p : includes(p, search))
                    ELSE db
        filtered == IF category # ""
                    THEN SelectSeq(searched, LAMBDA p : categoryOf(p) = category)
                    ELSE searched
        start == (page - 1) * pageSize
        end == start + pageSize
    IN  [data |-> slice(filtered, start, end),
         pagination |-> [page |-> page,
                         pageSize |-> pageSize,
                         total |-> Len(filtered),
                         totalPages |-> Ceil(Len(filtered), pageSize)]]

\* the store and the calls in flight after dispatch(fetchProducts(...)) with
\* the query of this state and this search and category
fetchEffect(s, search, category) ==
    [us |-> fetchUsersPending(s.us),
     net |-> Append(s.net, Call("fetchProducts", s.us.tableState.page,
                                s.us.tableState.pageSize, search, 0,
                                [category |-> category]))]

\* dispatch(setTableState(payload)), and the fetch effect if that changed
\* the page or the page size
setTableStateEffect(s, payload) ==
    LET next == [s EXCEPT !.us = setTableState(s.us, payload)]
    IN  IF \/ next.us.tableState.page # s.us.tableState.page
           \/ next.us.tableState.pageSize # s.us.tableState.pageSize
        THEN fetchEffect(next, next.us.tableState.search, categoryFilter)
        ELSE next

\* the effects that run when the debounced search (or, at mount, every
\* dependency) is new: the fetch effect with the query as it is, then
\* setTableState({ search, page: 1 }) and the fetch effect again if that
\* changed the page
searchEffects(s, search, category) ==
    LET fetched == fetchEffect(s, search, category)
        next == [fetched EXCEPT !.us = setTableState(fetched.us, [search |-> search, page |-> 1])]
    IN  IF next.us.tableState.page # s.us.tableState.page
        THEN fetchEffect(next, search, category)
        ELSE next

Here == [us |-> us, net |-> net]

\* the page is mounted: some fetch has been dispatched
Mounted == issued > 0

\* the step to this store and these calls is within the bounds
Within(next) ==
    /\ Len(next.net) <= MaxInFlight
    /\ issued + (Len(next.net) - Len(net)) <= MaxQueries
    /\ us' = next.us
    /\ net' = next.net
    /\ issued' = issued + (Len(next.net) - Len(net))

\* the page mounts: categoryFilter is '', the search is tableState.search
MountPage ==
    /\ Within(searchEffects(Here, us.tableState.search, ""))
    /\ categoryFilter' = ""
    /\ UNCHANGED <<mockUsers, nextId, settled, authVars, uiVars>>

\* the DataTable's previous and next buttons: onPageChange(pagination.page -+ 1)
handlePageChange(page) ==
    /\ Mounted
    /\ ~us.isLoading
    /\ \/ page = us.pagination.page - 1 /\ us.pagination.page > 1
       \/ page = us.pagination.page + 1 /\ us.pagination.page < us.pagination.totalPages
    /\ page # us.tableState.page
    /\ Within(setTableStateEffect(Here, [page |-> page]))
    /\ UNCHANGED <<mockUsers, nextId, settled, categoryFilter, authVars, uiVars>>

\* the DataTable's rows-per-page select
handlePageSizeChange(pageSize) ==
    /\ Mounted
    /\ pageSize # us.pagination.pageSize
    /\ setTableStateEffect(Here, [pageSize |-> pageSize, page |-> 1]).us # us
    /\ Within(setTableStateEffect(Here, [pageSize |-> pageSize, page |-> 1]))
    /\ UNCHANGED <<mockUsers, nextId, settled, categoryFilter, authVars, uiVars>>

\* the debounced search takes a new value
debouncedSearchChange(search) ==
    /\ Mounted
    /\ search # us.tableState.search
    /\ Within(searchEffects(Here, search, categoryFilter))
    /\ UNCHANGED <<mockUsers, nextId, settled, categoryFilter, authVars, uiVars>>

\* the category menu: setCategoryFilter(category), then the fetch effect
setCategoryFilter(category) ==
    /\ Mounted
    /\ category # categoryFilter
    /\ categoryFilter' = category
    /\ Within(fetchEffect(Here, us.tableState.search, category))
    /\ UNCHANGED <<mockUsers, nextId, settled, authVars, uiVars>>

FetchProductsFulfilled ==
    /\ Settles("fetchProducts")
    /\ us' = fetchUsersFulfilled(us, getProducts(mockUsers, Head(net).page, Head(net).pageSize,
                                                 Head(net).search, Head(net).data.category))
    /\ Settle("fetchProducts", "fulfilled")
    /\ UNCHANGED <<mockUsers, nextId, issued, categoryFilter, authVars, uiVars>>

FetchProductsRejected ==
    /\ Settles("fetchProducts")
    /\ us' = fetchUsersRejected(us, "Failed to fetch products")
    /\ Settle("fetchProducts", "rejected")
    /\ UNCHANGED <<mockUsers, nextId, issued, categoryFilter, authVars, uiVars>>

(***************************************************************************)
(* features/ui/uiSlice.ts: the notifications of the ui slice.  The other   *)
(* fields of UIState (sidebar, modal, online status, theme) are written by *)
(* reducers that do not touch the notifications and are left out.          *)
(***************************************************************************)
\* what a caller passes to addNotification: type, title and message, of
\* which the type is kept
NotificationPayloads == {[type |-> "warning"]}

\* the ids markNotificationAsRead is called with: the two oldest
\* notifications and an id no notification has
NotificationIds == {0, 1, 2}

initialUiState == [notifications |-> <<>>]

\* a faulty addNotification: the list is never cut
addNotification_KeepsAll(state, payload, now) ==
    [state EXCEPT !.notifications =
        <<[type |-> payload.type, id |-> now, createdAt |-> now, read |-> FALSE]>> \o @]

\* addNotification: id is `notif-${Date.now()}`, createdAt is new Date()
addNotification(state, payload, now) ==
    LET notification == [type |-> payload.type, id |-> now, createdAt |-> now,
                         read |-> FALSE]
        unshifted == <<notification>> \o state.notifications
    IN  [state EXCEPT !.notifications =
            IF Len(unshifted) > NotificationLimit
            THEN slice(unshifted, 0, NotificationLimit)
            ELSE unshifted]

\* markNotificationAsRead: find() takes the first notification with the id
markNotificationAsRead(state, id) ==
    LET i == findIndex(state.notifications, id)
    IN  IF i # 0
        THEN [state EXCEPT !.notifications[i].read = TRUE]
        ELSE state

markAllNotificationsAsRead(state) ==
    [state EXCEPT !.notifications =
        [i \in 1 .. Len(@) |-> [@[i] EXCEPT !.read = TRUE]]]

clearNotifications(state) == [state EXCEPT !.notifications = <<>>]

\* dispatch(addNotification(payload)) when Date.now() is clock
AddNotification(payload) ==
    /\ clock <= MaxClock
    /\ ui' = addNotification(ui, payload, clock)
    /\ clock' = clock + 1
    /\ UNCHANGED <<authVars, cacheVars, pageVars>>

MarkNotificationAsRead(id) ==
    /\ ui' = markNotificationAsRead(ui, id)
    /\ UNCHANGED <<clock, authVars, cacheVars, pageVars>>

MarkAllNotificationsAsRead ==
    /\ ui' = markAllNotificationsAsRead(ui)
    /\ UNCHANGED <<clock, authVars, cacheVars, pageVars>>

ClearNotifications ==
    /\ ui' = clearNotifications(ui)
    /\ UNCHANGED <<clock, authVars, cacheVars, pageVars>>

(***************************************************************************)
(* Route gating (components/layout/MainLayout.tsx, App.tsx)                *)
(***************************************************************************)
NoRole == "undefined"

\* state.auth.user?.role
selectUserRole(a) == IF a.user = NoUser THEN NoRole ELSE a.user.role

\* the allowedRoles of the routes of App.tsx; {} is a route without the prop
RouteRoles == {{}, {"admin", "manager"}, {"admin"}}

\* what ProtectedRoute renders: its children, or a redirect
ProtectedRoute(a, allowedRoles) ==
    IF ~a.isAuthenticated
    THEN "/login"
    ELSE IF allowedRoles # {} /\ selectUserRole(a) # NoRole
              /\ selectUserRole(a) \notin allowedRoles
         THEN "/dashboard"
         ELSE "children"

(***************************************************************************)
(* Specifications                                                          *)
(***************************************************************************)
\* local storage at start-up: empty, or the tokens of an earlier session
Init ==
    /\ storage \in {NoStorage, [token |-> 1, refreshToken |-> 1]}
    /\ auth = initialState(storage)
    /\ reqs = [r \in Requests |-> idleRequest]
    /\ pendingLogin = <<>>
    /\ pendingRefresh = <<>>
    /\ nextTok = 2
    /\ us = initialUsersState
    /\ mockUsers = generateUsers(NumUsers)
    /\ net = <<>>
    /\ nextId = NumUsers + 1
    /\ settled = NotSettled
    /\ issued = 0
    /\ categoryFilter = ""
    /\ ui = initialUiState
    /\ clock = 1

\* the transport's calls, overlapping, with the user's login and logout
NextTransport ==
    \/ \E r \in Requests : Send(r)
    \/ \E r \in Requests : Receive(r)
    \/ \E r \in Requests : RefreshOk(r)
    \/ \E r \in Requests : RefreshFailed(r)
    \/ \E r \in Requests : ReceiveRetry(r)
    \/ \E credentials \in LoginInputs : LoginStart(credentials)
    \/ LoginFulfilled
    \/ LoginRejected
    \/ LogoutAsync

SpecTransport == Init /\ [][NextTransport]_vars

\* every operation on the auth state, with the transport's calls limited to
\* AuthRequests
NextAuth ==
    \/ \E r \in AuthRequests : Send(r)
    \/ \E r \in AuthRequests : Receive(r)
    \/ \E r \in AuthRequests : RefreshOk(r)
    \/ \E r \in AuthRequests : RefreshFailed(r)
    \/ \E r \in AuthRequests : ReceiveRetry(r)
    \/ \E credentials \in LoginInputs : LoginStart(credentials)
    \/ LoginFulfilled
    \/ LoginRejected
    \/ LogoutAsync
    \/ \E rt \in ({auth.refreshToken} \ {NoToken}) \cup {BadToken} : RefreshTokenStart(rt)
    \/ RefreshTokenFulfilled
    \/ RefreshTokenRejected
    \/ ClearError
    \/ \E patch \in UserPatches : UpdateUser(patch)

SpecAuth == Init /\ [][NextAuth]_vars

\* the users page: fetches of any descriptor and the three mutations, with
\* up to MaxInFlight calls in flight
NextCache ==
    \/ \E page \in Pages, pageSize \in PageSizes, search \in Searches :
           DispatchFetchUsers(page, pageSize, search)
    \/ FetchUsersFulfilled
    \/ FetchUsersRejected
    \/ \E userData \in NewUsers : DispatchCreateUser(userData)
    \/ CreateUserFulfilled
    \/ CreateUserRejected
    \/ \E id \in UserIds, data \in UserEdits : DispatchUpdateUser(id, data)
    \/ UpdateUserFulfilled
    \/ UpdateUserRejected
    \/ \E id \in UserIds : DispatchDeleteUser(id)
    \/ DeleteUserFulfilled
    \/ DeleteUserRejected

SpecCache == Init /\ [][NextCache]_vars

\* the ids of the rows of the table
ShownIds == {us.users[i].id : i \in 1 .. Len(us.users)}

\* the rows of the table and null
Selectable == {us.users[i] : i \in 1 .. Len(us.users)} \cup {NoEntity}

\* the users page with the edit form's selection, the optimistic status
\* toggle and an update whose backend call fails; the table shows pages of
\* SmallPageSize rows, unfiltered
NextMutations ==
    \/ \E page \in Pages : DispatchFetchUsers(page, SmallPageSize, "")
    \/ FetchUsersFulfilled
    \/ FetchUsersRejected
    \/ \E userData \in NewUsers : DispatchCreateUser(userData)
    \/ CreateUserFulfilled
    \/ CreateUserRejected
    \/ \E id \in UserIds, data \in UserEdits : DispatchUpdateUser(id, data)
    \/ UpdateUserFulfilled
    \/ UpdateUserRejected
    \/ \E id \in UserIds \cup ShownIds : DispatchDeleteUser(id)
    \/ DeleteUserFulfilled
    \/ DeleteUserRejected
    \/ \E user \in Selectable : SetSelectedUser(user)
    \/ \E id \in UserIds, isActive \in BOOLEAN : OptimisticUpdateUserStatus(id, isActive)
    \/ UpdateUserFailed

SpecMutations == Init /\ [][NextMutations]_vars

\* a table page: its mount, the handlers of its query, the settling of its
\* fetches, and creates and deletes of rows
NextQuery ==
    \/ MountPage
    \/ \E page \in Pages : handlePageChange(page)
    \/ \E pageSize \in PageSizes : handlePageSizeChange(pageSize)
    \/ \E search \in Searches : debouncedSearchChange(search)
    \/ \E category \in CategoryFilters : setCategoryFilter(category)
    \/ FetchProductsFulfilled
    \/ FetchProductsRejected
    \/ \E userData \in NewUsers : DispatchCreateUser(userData)
    \/ CreateUserFulfilled
    \/ \E id \in ShownIds : DispatchDeleteUser(id)
    \/ DeleteUserFulfilled

SpecQuery == Init /\ [][NextQuery]_vars

\* the notifications: every reducer that writes them
NextUi ==
    \/ \E payload \in NotificationPayloads : AddNotification(payload)
    \/ \E id \in NotificationIds : MarkNotificationAsRead(id)
    \/ MarkAllNotificationsAsRead
    \/ ClearNotifications

SpecUi == Init /\ [][NextUi]_vars

(***************************************************************************)
(* Claims about the authenticated transport                                *)
(***************************************************************************)
Cleared(a) == a.token = NoToken /\ a.refreshToken = NoToken /\ ~a.isAuthenticated

\* C1: single-flight refresh: calls that are in flight together and have all
\* received a 401 cause at most one POST /auth/refresh between them.
C1_SingleFlightRefresh ==
    \A r, q \in Requests :
        (r # q /\ reqs[r].pc = "refreshing" /\ reqs[q].pc = "refreshing")
            => reqs[r].refreshes + reqs[q].refreshes <= 1

\* C2: bounded retry: a call sends its query at most twice and refreshes at
\* most once; a 401 on the retry is returned, with no second refresh and no
\* logout; every step of a call brings it nearer to its return.
Rank(req) ==
    CASE req.pc = "idle" -> 4
      [] req.pc = "sent1" -> 3
      [] req.pc = "refreshing" -> 2
      [] req.pc = "sent2" -> 1
      [] OTHER -> 0

C2_Bounds ==
    \A r \in Requests :
        /\ reqs[r].sends <= 2
        /\ reqs[r].refreshes <= 1
        /\ (reqs[r].sends = 2 /\ reqs[r].result = "401" /\ reqs[r].pc # "sent2")
               => reqs[r].pc = "done" /\ reqs[r].refreshes = 1 /\ reqs[r].logouts = 0

C2_Progress ==
    \A r \in Requests : reqs'[r] # reqs[r] => Rank(reqs'[r]) < Rank(reqs[r])

C2_BoundedRetry == [][C2_Bounds /\ C2_Bounds' /\ C2_Progress]_vars

\* a call whose retry was answered 401 and that returned it
C2_Witness ==
    \E r \in Requests :
        /\ reqs[r].pc = "done" /\ reqs[r].sends = 2 /\ reqs[r].result = "401"
        /\ reqs[r].refreshes = 1

\* C3: terminal auth failure: a 401 with no refresh token in the store, or a
\* refresh call that fails, clears the credentials and the stored tokens,
\* dispatches logout, does not send the query again and returns the 401.
C3_NoRefreshToken(r) ==
    reqs[r].pc = "sent1" /\ reqs'[r].result = "401" /\ auth.refreshToken = NoToken

C3_RefreshFails(r) ==
    reqs[r].pc = "refreshing" /\ reqs'[r] # reqs[r] /\ nextTok' = nextTok

C3_TerminalAuthFailure ==
    [][\A r \in Requests :
          (C3_NoRefreshToken(r) \/ C3_RefreshFails(r)) =>
              /\ Cleared(auth')
              /\ auth'.user = NoUser
              /\ storage' = NoStorage
              /\ reqs'[r].logouts = reqs[r].logouts + 1
              /\ reqs'[r].sends = reqs[r].sends
              /\ reqs'[r].refreshes = reqs[r].refreshes
              /\ reqs'[r].pc = "done"
              /\ reqs'[r].result = "401"]_vars

\* a call ended by a failed refresh, and one ended for want of a refresh token
C3_Witness ==
    /\ \E r \in Requests :
          reqs[r].pc = "done" /\ reqs[r].refreshes = 1 /\ reqs[r].logouts = 1
    /\ \E r \in Requests :
          reqs[r].pc = "done" /\ reqs[r].refreshes = 0 /\ reqs[r].logouts = 1
    /\ Cleared(auth) /\ storage = NoStorage

\* C4: calls whose 401s are handled together and whose refresh fails all end
\* in the 401 failure, and one logout is dispatched between them.
C4_OneLogoutSignal ==
    \A r, q \in Requests :
        (/\ r \in reqs[q].during
         /\ reqs[r].pc = "done" /\ reqs[r].sends = 1 /\ reqs[r].refreshes = 1
         /\ reqs[q].pc = "done" /\ reqs[q].sends = 1 /\ reqs[q].refreshes = 1)
            => /\ reqs[r].result = "401" /\ reqs[q].result = "401"
               /\ reqs[r].logouts + reqs[q].logouts = 1

\* C5: only a 401 starts the refresh logic: any other first answer is
\* returned with no refresh call, no logout, no change of the credentials
\* and no second send.
C5_Only401Refreshes ==
    [][\A r \in Requests :
          (reqs[r].pc = "sent1" /\ reqs'[r] # reqs[r] /\ reqs'[r].result # "401") =>
              /\ reqs'[r].pc = "done"
              /\ reqs'[r].refreshes = reqs[r].refreshes
              /\ reqs'[r].logouts = reqs[r].logouts
              /\ reqs'[r].sends = reqs[r].sends
              /\ auth' = auth
              /\ storage' = storage]_vars

\* calls returned after one send with each of the other answers, the
\* credentials still in place
C5_Witness ==
    /\ \E r \in Requests :
          reqs[r].pc = "done" /\ reqs[r].sends = 1 /\ reqs[r].result = "FETCH_ERROR"
    /\ \E r \in Requests :
          reqs[r].pc = "done" /\ reqs[r].sends = 1 /\ reqs[r].result = "500"
    /\ auth.token # NoToken /\ auth.refreshToken # NoToken

\* C6: on a successful refresh the new tokens are in the store when the
\* query is sent again, and the retry carries the new access token, not the
\* one the first send carried.
C6_RetryCarriesNewToken ==
    [][\A r \in Requests :
          (reqs[r].pc = "refreshing" /\ reqs'[r].pc = "sent2") =>
              /\ auth'.token = nextTok
              /\ auth'.refreshToken = nextTok
              /\ auth'.isAuthenticated
              /\ reqs'[r].hdr = auth'.token
              /\ reqs'[r].hdr # reqs[r].hdr]_vars

\* a retry on the wire with the refreshed token, which the store holds
C6_Witness ==
    \E r \in Requests :
        /\ reqs[r].pc = "sent2" /\ reqs[r].hdr = auth.token
        /\ auth.token > 1 /\ storage.token = 1

(***************************************************************************)
(* Claims about the auth state                                             *)
(***************************************************************************)
TokensChange == auth'.token # auth.token \/ auth'.refreshToken # auth.refreshToken

\* the transport stores refreshed credentials and sends the query again
TransportRefreshStep ==
    \E r \in Requests : reqs[r].pc = "refreshing" /\ reqs'[r].pc = "sent2"

\* the transport dispatches logout()
TransportForceLogoutStep ==
    \E r \in Requests : reqs'[r].logouts = reqs[r].logouts + 1

\* loginAsync settles with mockApi.login's response
LoginFulfilledStep ==
    /\ pendingLogin # <<>> /\ pendingLogin' = Tail(pendingLogin)
    /\ loginSucceeds(Head(pendingLogin).email, Head(pendingLogin).password)

\* refreshTokenAsync settles, either way
RefreshTokenSettledStep ==
    pendingRefresh # <<>> /\ pendingRefresh' = Tail(pendingRefresh)

\* logoutAsync: nothing in flight moves, the session is dropped
LogoutAsyncStep ==
    /\ UNCHANGED <<reqs, pendingLogin, pendingRefresh, nextTok, cacheVars, pageVars, uiVars>>
    /\ auth' = logoutFulfilled(auth)
    /\ storage' = NoStorage

\* C7 as stated: token and refreshToken are written by the transport's
\* refresh and forced logout only, not by login, logout or the refresh thunk.
C7_OnlyTransportWrites ==
    [][TokensChange => (TransportRefreshStep \/ TransportForceLogoutStep)]_vars

\* C7 amended: token and refreshToken are written by the transport's refresh
\* and forced logout and by the settled auth thunks (loginAsync.fulfilled,
\* logoutAsync.fulfilled, refreshTokenAsync.fulfilled and .rejected); a
\* rejected login, the pending actions, clearError and updateUser leave them.
C7_CredentialWriters ==
    [][TokensChange =>
          \/ TransportRefreshStep
          \/ TransportForceLogoutStep
          \/ LoginFulfilledStep
          \/ RefreshTokenSettledStep
          \/ LogoutAsyncStep]_vars

\* a session written by a login while the transport has made no call
C7_Witness ==
    /\ \A r \in Requests : reqs[r].pc = "idle"
    /\ pendingRefresh = <<>> /\ nextTok = 3
    /\ auth.token = 2 /\ auth.refreshToken = 2 /\ storage.token = 2
    /\ auth.user = demoUsers["admin@enterprise.com"].user

(***************************************************************************)
(* Claims about the users collection cache                                 *)
(***************************************************************************)
\* the step that dispatches a users thunk of this kind
Dispatches(kind) ==
    /\ Len(net') = Len(net) + 1
    /\ net'[Len(net')].kind = kind

\* the step that settles the oldest users thunk in flight, of this kind
SettlesNow(kind) == Settles(kind) /\ net' = Tail(net)

Descriptor(call) == <<call.page, call.pageSize, call.search>>

\* the oldest call in flight is a fetch that a later fetch, of another
\* descriptor, has superseded
Superseded ==
    /\ Settles("fetchUsers")
    /\ \E i \in 2 .. Len(net) :
           /\ net[i].kind = "fetchUsers"
           /\ Descriptor(net[i]) # Descriptor(Head(net))

\* C8: latest-descriptor-wins: while a later fetch of another descriptor is
\* in flight, the response to the earlier fetch is not stored: the stored
\* rows and pagination stay as they were when it arrives.
C8_LatestDescriptorWins ==
    [][(Superseded /\ SettlesNow("fetchUsers"))
           => (us'.users = us.users /\ us'.pagination = us.pagination)]_vars

\* the response mockApi.getUsers gives to the oldest call in flight
Response == getUsers(mockUsers, Head(net).page, Head(net).pageSize, Head(net).search)

\* C9: fetch outcome: a fetch that succeeds replaces the rows and the
\* pagination by the response in one step and ends loading with no error; a
\* fetch that fails records an error and leaves the rows and the pagination
\* as they were.
C9_FetchOutcome ==
    [][SettlesNow("fetchUsers") =>
          \/ /\ settled'.status = "fulfilled"
             /\ us'.users = Response.data
             /\ us'.pagination = Response.pagination
             /\ ~us'.isLoading
             /\ us'.error = NoError
          \/ /\ settled'.status = "rejected"
             /\ us'.error # NoError
             /\ us'.users = us.users
             /\ us'.pagination = us.pagination]_vars

\* what holds of C9 in the source: everything but "with no error"; a fetch
\* that succeeds leaves the error as it finds it
C9_FetchOutcomeKeepsError ==
    [][SettlesNow("fetchUsers") =>
          \/ /\ settled'.status = "fulfilled"
             /\ us'.users = Response.data
             /\ us'.pagination = Response.pagination
             /\ ~us'.isLoading
             /\ us'.error = us.error
          \/ /\ settled'.status = "rejected"
             /\ us'.error # NoError
             /\ ~us'.isLoading
             /\ us'.users = us.users
             /\ us'.pagination = us.pagination]_vars

\* C10: create is optimistic: the step that dispatches createUser puts the
\* entity at the head of the rows, raises total by one and records the
\* pending operation; the step that confirms it leaves the server's row at
\* the head.
C10_CreateIsOptimistic ==
    [][/\ Dispatches("createUser") =>
             /\ us'.users # <<>>
             /\ Head(us'.users).name = net'[Len(net')].data.name
             /\ Len(us'.users) = Len(us.users) + 1
             /\ us'.pagination.total = us.pagination.total + 1
             /\ us'.isCreating
       /\ (SettlesNow("createUser") /\ settled'.status = "fulfilled") =>
             /\ us'.users # <<>>
             /\ Head(us'.users) = Head(mockUsers')]_vars

\* what holds of C10 in the source: the dispatch only records the pending
\* operation; the row arrives, and total rises, with the confirmation
C10_CreateOnConfirmation ==
    [][/\ Dispatches("createUser") =>
             /\ us'.users = us.users
             /\ us'.pagination = us.pagination
             /\ us'.isCreating
       /\ (SettlesNow("createUser") /\ settled'.status = "fulfilled") =>
             /\ us'.users = <<Head(mockUsers')>> \o us.users
             /\ us'.pagination.total = us.pagination.total + 1
             /\ ~us'.isCreating]_vars

\* C11: create rollback: neither the dispatch of a create nor its failure
\* changes the stored rows or the pagination, so after the failure they are
\* what they were before the call; the failure records the error, and the
\* backend's collection does not hold the entity.
C11_CreateRollback ==
    [][/\ Dispatches("createUser") =>
             /\ us'.users = us.users
             /\ us'.pagination = us.pagination
       /\ (SettlesNow("createUser") /\ settled'.status = "rejected") =>
             /\ us'.users = us.users
             /\ us'.pagination = us.pagination
             /\ us'.error # NoError
             /\ mockUsers' = mockUsers]_vars

\* a create has failed on a table that shows rows
C11_Witness ==
    /\ settled = [kind |-> "createUser", status |-> "rejected"]
    /\ us.error = "Failed to create user"
    /\ us.users # <<>>
    /\ us.pagination.total = Len(mockUsers)

\* the row with the id among these rows, NoEntity if there is none
RowOf(rows, id) == IF findIndex(rows, id) # 0 THEN rows[findIndex(rows, id)] ELSE NoEntity

\* C12: update rollback: the dispatch of an update merges the patch into
\* the stored row with that id, and into the selected entity when it has
\* that id; when the update fails, the stored row and the selected entity
\* are the ones the backend last confirmed, whatever was written
\* optimistically before.
C12_UpdateRollback ==
    [][/\ Dispatches("updateUser") =>
             LET call == net'[Len(net')]
             IN  /\ RowOf(us.users, call.id) # NoEntity =>
                        RowOf(us'.users, call.id) = Merge(RowOf(us.users, call.id), call.data)
                 /\ us.selectedUser.id = call.id =>
                        us'.selectedUser = Merge(us.selectedUser, call.data)
       /\ (SettlesNow("updateUser") /\ settled'.status = "rejected") =>
             LET id == Head(net).id
             IN  /\ (RowOf(us'.users, id) # NoEntity /\ RowOf(mockUsers, id) # NoEntity) =>
                        RowOf(us'.users, id) = RowOf(mockUsers, id)
                 /\ (us'.selectedUser.id = id /\ RowOf(mockUsers, id) # NoEntity) =>
                        us'.selectedUser = RowOf(mockUsers, id)]_vars

\* the second half of C12 alone: after a failed update the stored row is
\* the one the backend last confirmed
C12_FailedUpdateRestores ==
    [][(SettlesNow("updateUser") /\ settled'.status = "rejected") =>
          LET id == Head(net).id
          IN  (RowOf(us'.users, id) # NoEntity /\ RowOf(mockUsers, id) # NoEntity) =>
                  RowOf(us'.users, id) = RowOf(mockUsers, id)]_vars

\* C13: delete outcome: a delete that succeeds removes the row with the id,
\* keeps the other rows in their order, lowers total by one and clears the
\* selected entity if it had the id; the dispatch of a delete and a delete
\* that fails leave the rows, each at its index, the pagination and the
\* selected entity as they were.
C13_DeleteOutcome ==
    [][/\ (SettlesNow("deleteUser") /\ settled'.status = "fulfilled") =>
             LET id == Head(net).id
             IN  /\ us'.users = SelectSeq(us.users, LAMBDA u : u.id # id)
                 /\ us'.pagination.total = us.pagination.total - 1
                 /\ us'.selectedUser =
                        IF us.selectedUser.id = id THEN NoEntity ELSE us.selectedUser
       /\ (\/ Dispatches("deleteUser")
           \/ SettlesNow("deleteUser") /\ settled'.status = "rejected") =>
             /\ us'.users = us.users
             /\ us'.pagination = us.pagination
             /\ us'.selectedUser = us.selectedUser]_vars

\* the selected row has been deleted: the selection is cleared, the other
\* row of the page is left and total is the backend's count
C13_Witness ==
    /\ settled = [kind |-> "deleteUser", status |-> "fulfilled"]
    /\ us.selectedUser = NoEntity
    /\ Len(us.users) = SmallPageSize - 1
    /\ RowOf(us.users, 1) = NoEntity
    /\ RowOf(mockUsers, 1) = NoEntity
    /\ us.pagination.total = Len(mockUsers)
    /\ net = <<>>

\* the update and delete calls in flight, by their place in the queue
MutationsInFlight(id) ==
    {i \in 1 .. Len(net) : net[i].kind \in {"updateUser", "deleteUser"} /\ net[i].id = id}

\* C14: per-id serialization: at most one mutation of an entity id is in
\* flight at any time; a second one on the same id is not sent.
C14_OneMutationPerId == \A id \in UserIds : Cardinality(MutationsInFlight(id)) <= 1

\* some call of this kind is in flight
AnyInFlight(kind) == \E i \in 1 .. Len(net) : net[i].kind = kind

\* C15: the in-progress flag of each kind of mutation is set exactly while
\* a mutation of that kind is in flight.
C15_FlagsCoverMutations ==
    /\ us.isCreating = AnyInFlight("createUser")
    /\ us.isUpdating = AnyInFlight("updateUser")
    /\ us.isDeleting = AnyInFlight("deleteUser")

\* C16: update of a row that is not shown: an update whose id is not among
\* the stored rows fails with 'User not found' and leaves the stored rows,
\* the pagination and the selected entity as they were, whether or not the
\* backend holds the id.
C16_UpdateNotFound ==
    [][(SettlesNow("updateUser") /\ RowOf(us.users, Head(net).id) = NoEntity) =>
          /\ settled'.status = "rejected"
          /\ us'.error = "User not found"
          /\ us'.users = us.users
          /\ us'.pagination = us.pagination
          /\ us'.selectedUser = us.selectedUser]_vars

\* what holds of C16 in the source: the stored rows and the pagination are
\* left as they were, and the update fails only if the backend does not
\* hold the id
C16_UpdateOfHiddenRow ==
    [][(SettlesNow("updateUser") /\ RowOf(us.users, Head(net).id) = NoEntity) =>
          /\ us'.users = us.users
          /\ us'.pagination = us.pagination
          /\ RowOf(mockUsers, Head(net).id) = NoEntity =>
                 /\ settled'.status = "rejected"
                 /\ us'.error = "User not found"
                 /\ us'.selectedUser = us.selectedUser
          /\ RowOf(mockUsers, Head(net).id) # NoEntity =>
                 /\ settled'.status = "fulfilled"
                 /\ us'.error = us.error]_vars

\* the users state after a create of this entity has succeeded and then a
\* delete of the id the backend gave it
RoundTrip(st, userData) ==
    deleteUserFulfilled(createUserFulfilled(st, newUser(nextId, userData)), nextId)

\* C17: round trip: from every reachable users state, a create that
\* succeeds followed by a delete of the returned id that succeeds leaves
\* total at its value before the create, and the stored rows without the
\* created row, as they were.
C17_CreateDeleteRoundTrip ==
    \A userData \in NewUsers :
        /\ RoundTrip(us, userData).pagination.total = us.pagination.total
        /\ RowOf(RoundTrip(us, userData).users, nextId) = NoEntity
        /\ RoundTrip(us, userData).users = us.users

\* a create and then a delete of the created row, and nothing else, have run
\* on the initial state: total is back at its initial value
C17_Witness ==
    /\ issued = 2 /\ net = <<>>
    /\ nextId = NumUsers + 2
    /\ settled = [kind |-> "deleteUser", status |-> "fulfilled"]
    /\ RowOf(mockUsers, NumUsers + 1) = NoEntity
    /\ Len(mockUsers) = NumUsers
    /\ us.users = initialUsersState.users
    /\ us.pagination.total = initialUsersState.pagination.total

\* the users state after a fetch of this descriptor has been dispatched and
\* has succeeded, the backend's collection being mockUsers
Fetched(st, page, pageSize, search) ==
    fetchUsersFulfilled(fetchUsersPending(st), getUsers(mockUsers, page, pageSize, search))

\* what C18 compares of a users state
FetchView(st) == <<st.users, st.pagination, st.isLoading, st.error>>

\* C18: idempotence of fetch: from every reachable users state and for
\* every descriptor, a second fetch of the same descriptor, with the
\* backend's collection unchanged, leaves the rows, the pagination, the
\* loading flag and the error as the first fetch left them.
C18_FetchIdempotent ==
    \A page \in Pages, pageSize \in PageSizes, search \in Searches :
        FetchView(Fetched(Fetched(us, page, pageSize, search), page, pageSize, search))
            = FetchView(Fetched(us, page, pageSize, search))

\* two fetches, and nothing else, have run one after the other, and the
\* cache shows the second page of the unchanged collection
C18_Witness ==
    /\ issued = 2 /\ net = <<>>
    /\ settled = [kind |-> "fetchUsers", status |-> "fulfilled"]
    /\ mockUsers = generateUsers(NumUsers)
    /\ us.pagination.page = 2
    /\ us.users # <<>>
    /\ FetchView(us) = FetchView(Fetched(us, 2, SmallPageSize, ""))

(***************************************************************************)
(* Claims about the query of a table page                                  *)
(***************************************************************************)
\* what a step changes of the query
PageSizeChanges == us'.tableState.pageSize # us.tableState.pageSize
SearchChanges == us'.tableState.search # us.tableState.search
FilterChanges ==
    \/ us'.tableState.filters # us.tableState.filters
    \/ categoryFilter' # categoryFilter
PageChanges == us'.tableState.page # us.tableState.page

\* C19: query-state page reset: every step that changes the page size, the
\* search text or a filter, the category filter included, leaves the page
\* at 1; a step that changes the page and none of these leaves the sort
\* unchanged as well.
C19_PageReset ==
    [][/\ (PageSizeChanges \/ SearchChanges \/ FilterChanges) => us'.tableState.page = 1
       /\ (PageChanges /\ ~(PageSizeChanges \/ SearchChanges \/ FilterChanges)) =>
              us'.tableState.sort = us.tableState.sort]_vars

\* what holds of C19 in the source: the page size and the search reset the
\* page, the category filter leaves it where it is
C19_PageResetButCategory ==
    [][/\ (PageSizeChanges \/ SearchChanges) => us'.tableState.page = 1
       /\ (categoryFilter' # categoryFilter /\ categoryFilter' # "") =>
              us'.tableState.page = us.tableState.page
       /\ (PageChanges /\ ~(PageSizeChanges \/ SearchChanges)) =>
              /\ us'.tableState.sort = us.tableState.sort
              /\ us'.tableState.filters = us.tableState.filters]_vars

\* a fetch has stored a total with at least one page of rows
TotalKnown == us.pagination.totalPages > 0

\* C20: page clamp: once a total is known, the page of the query is within
\* 1 .. totalPages.
C20_PageClamp ==
    TotalKnown => (1 <= us.tableState.page /\ us.tableState.page <= us.pagination.totalPages)

\* the calls a step adds to those in flight
NewCalls == SubSeq(net', Len(net) + 1, Len(net'))

\* C21: search debounce coalescing: a step in which the debounced search
\* text takes a new value causes exactly one fetch, which carries the new
\* text and page 1; no fetch carries the new text with the old page number.
C21_OneFetchPerSearch ==
    [][SearchChanges =>
          /\ Len(net') = Len(net) + 1
          /\ NewCalls[1].search = us'.tableState.search
          /\ NewCalls[1].page = 1]_vars

(***************************************************************************)
(* Claims about the stored page                                            *)
(***************************************************************************)
\* C23: page well-formedness: in every reachable state the stored total is
\* not negative and the stored number of pages is the total divided by the
\* page size, rounded up.
C23_PageWellFormed ==
    /\ us.pagination.total >= 0
    /\ us.pagination.totalPages = Ceil(us.pagination.total, us.pagination.pageSize)

(***************************************************************************)
(* Claims about the notifications                                          *)
(***************************************************************************)
\* C24: notification bound: after every addNotification,
\* markNotificationAsRead, markAllNotificationsAsRead and clearNotifications
\* the list holds at most 50 notifications, the most recent first; an
\* added notification is first and unread, and the notifications before it
\* follow in their order, the oldest dropped when there were 50.
C24_NotificationBound ==
    [][LET old == ui.notifications
           new == ui'.notifications
       IN  /\ Len(new) <= NotificationLimit
           /\ \A i \in 1 .. (Len(new) - 1) : new[i].createdAt >= new[i + 1].createdAt
           /\ clock' # clock =>
                  /\ ~new[1].read
                  /\ new[1].createdAt = clock
                  /\ Tail(new) = SubSeq(old, 1, Min(Len(old), NotificationLimit - 1))]_vars

\* the list is full, its oldest notification has been dropped, and the
\* newest is unread while one before it has been read
C24_Witness ==
    /\ Len(ui.notifications) = NotificationLimit
    /\ ui.notifications[NotificationLimit].createdAt > 1
    /\ ~ui.notifications[1].read
    /\ ui.notifications[2].read

(***************************************************************************)
(* Claims about the auth state                                             *)
(***************************************************************************)
\* C25: auth-state consistency: in every reachable state isAuthenticated is
\* true exactly when the access token is not null, and a null access token
\* comes with a null refresh token and a null user.
C25_AuthConsistent ==
    /\ auth.isAuthenticated <=> auth.token # NoToken
    /\ auth.token = NoToken => (auth.refreshToken = NoToken /\ auth.user = NoUser)

\* a session with a user has ended: a server handed out a token, and the
\* store holds none
C25_Witness ==
    /\ nextTok > 2
    /\ auth.token = NoToken
    /\ ~auth.isAuthenticated
    /\ storage = NoStorage

\* the store and local storage hold no token and no login is in flight:
\* the state a logout leaves, until a login is initiated
LoggedOut ==
    /\ Cleared(auth)
    /\ storage = NoStorage
    /\ pendingLogin = <<>>

\* C26: logout is final: from a logged-out state with no login in flight,
\* no step authenticates the store or writes a token to local storage; a
\* refresh of the thunk or of the transport that completes late does not.
C26_LogoutIsFinal ==
    [][LoggedOut => (Cleared(auth') /\ storage' = NoStorage)]_vars

\* no login, no refresh thunk and no call of the transport is in flight
AuthQuiet ==
    /\ pendingLogin = <<>>
    /\ pendingRefresh = <<>>
    /\ \A r \in Requests : ~InFlight(r)

\* C27: storage agreement: whenever no auth operation is in flight, local
\* storage holds the token and the refresh token of the store.
C27_StorageAgrees ==
    AuthQuiet => (storage.token = auth.token /\ storage.refreshToken = auth.refreshToken)

\* C28: route gating: ProtectedRoute renders its children only if the store
\* is authenticated and, when allowedRoles is not empty, the role of the
\* store's user is one of them; also in the state restored at start-up from
\* a stored token, with no user loaded.
C28_RouteGating ==
    \A allowedRoles \in RouteRoles :
        ProtectedRoute(auth, allowedRoles) = "children" =>
            /\ auth.isAuthenticated
            /\ allowedRoles # {} => selectUserRole(auth) \in allowedRoles

\* C29: row bound and distinct ids: the stored page never holds more rows
\* than pagination.pageSize and never two rows with the same id.
C29_RowBound ==
    /\ Len(us.users) <= us.pagination.pageSize
    /\ \A i, j \in 1 .. Len(us.users) : us.users[i].id = us.users[j].id => i = j

\* loginAsync settles rejected: mockApi.login threw
LoginRejectedStep ==
    /\ pendingLogin # <<>> /\ pendingLogin' = Tail(pendingLogin)
    /\ ~loginSucceeds(Head(pendingLogin).email, Head(pendingLogin).password)

\* C30: frame of a failed login: the step that settles a login as rejected
\* leaves user, token, refreshToken, isAuthenticated and the stored tokens
\* as they were, sets isLoading to false and error to the message; the
\* step that settles a login as fulfilled sets user, token, refreshToken
\* and isAuthenticated together, and stores the tokens.
C30_LoginFrame ==
    [][/\ LoginRejectedStep =>
              /\ auth'.user = auth.user
              /\ auth'.token = auth.token
              /\ auth'.refreshToken = auth.refreshToken
              /\ auth'.isAuthenticated = auth.isAuthenticated
              /\ storage' = storage
              /\ ~auth'.isLoading
              /\ auth'.error = "Invalid email or password"
       /\ LoginFulfilledStep =>
              /\ auth'.user = demoUsers[Head(pendingLogin).email].user
              /\ auth'.token = nextTok
              /\ auth'.refreshToken = nextTok
              /\ auth'.isAuthenticated
              /\ ~auth'.isLoading
              /\ storage' = [token |-> auth'.token, refreshToken |-> auth'.refreshToken]]_vars

\* a login has failed in a session that has a user: the session is as it
\* was, with the message as the error
C30_Witness ==
    /\ auth.error = "Invalid email or password"
    /\ ~auth.isLoading
    /\ auth.isAuthenticated
    /\ auth.user # NoUser
    /\ storage.token = auth.token
    /\ pendingLogin = <<>>

====
